---- MODULE Spec2Model ----
(***************************************************************************)
(* State-machine model of main() in train_DTI.py: the epoch loop with its  *)
(* supervised and contrastive passes, the validation cadence, the          *)
(* best-checkpoint selection and the terminal test pass.                   *)
(*                                                                         *)
(* Metric values are integers v standing for v / MetricScale.  The         *)
(* parameter state of a model is the number of optimizer steps applied to  *)
(* it since construction (every optimizer step changes the parameters).    *)
(***************************************************************************)
EXTENDS Integers, Sequences, FiniteSets, TLC

\* ---- bounds of the model ----
MaxEpochs == 2
MaxEveryNVal == 2
MaxBatches == 2
MaxBatchSize == 1
MetricScale == 2

VARIABLES
  config,                    \* resolved configuration (immutable in the run)
  do_wandb, wandb_save,      \* sink enabled / model artifacts sent to the sink
  training_generator,        \* len(training_generator)
  contrastive_generator,     \* len(contrastive_generator), 0 when not created
  pc,                        \* position of main()
  epo, i,                    \* loop variables
  model,                     \* live model: [obj, params, training]
  max_metric, model_max,     \* Checkpoint Selector state
  opt, lr_scheduler,         \* supervised optimizer / schedule: [exists, steps]
  opt_contrastive, lr_scheduler_contrastive, contrastive_loss_fct,
  val_results,               \* watched metric of the validation pass just run
  files,                     \* persisted snapshots: set of [path, state]
  artifacts,                 \* model artifacts sent to the sink (paths, in order)
  telemetry,                 \* records received by wandb.log, in order
  val_count,                 \* number of validation passes completed
  val_last,                  \* the last validation pass: [epoch, metric, params]
  val_best,                  \* the first pass with the highest metric so far
  test_runs,                 \* parameter states evaluated by the terminal test
  errors_logged,             \* number of logg.error calls
  raised,                    \* where exceptions were raised, in order
  test_results,              \* results of the terminal test(): <<>> or <<[state, epoch]>>
  grad,                      \* batches whose gradients are in the .grad buffers
  grad_enabled,              \* torch.is_grad_enabled()
  returned                   \* <<>> until main() returns, then its value

vars == <<config, do_wandb, wandb_save, training_generator, contrastive_generator,
          pc, epo, i, model, max_metric, model_max, opt, lr_scheduler,
          opt_contrastive, lr_scheduler_contrastive, contrastive_loss_fct,
          val_results, files, artifacts, telemetry, val_count, val_last,
          val_best, test_runs, errors_logged, raised, test_results,
          grad, returned>>

\* ---- pure helpers ----

\* the values the watched metric can validly take: AUPR in [0,1] for
\* classification, Pearson correlation in [-1,1] for regression
MetricValues(classify) ==
  IF classify THEN 0..MetricScale ELSE (0 - MetricScale)..MetricScale

\* variant: the snapshot is another reference to the object it was taken of
sharedref(m) == m

\* copy.deepcopy(model): an independent object with the same state
deepcopy(m) == [obj |-> "copy", params |-> m.params, training |-> m.training]

\* model.state_dict(): the parameter state only; a reference to the live
\* model object reads the live parameters
state_dict(m) == IF m.obj = model.obj THEN model.params ELSE m.params

DigitStr(d) == <<"0", "1", "2", "3", "4", "5", "6", "7", "8", "9">>[d + 1]

RECURSIVE Digits(_)
Digits(n) == IF n < 10 THEN <<DigitStr(n)>>
             ELSE Digits(n \div 10) \o <<DigitStr(n % 10)>>

\* the format spec {epo:02}: decimal, zero-padded to width 2
Pad2(n) == IF n < 10 THEN <<"0">> \o Digits(n) ELSE Digits(n)

\* f"{save_dir}/{config.experiment_id}_best_model_epoch{epo:02}.pt"
EpochSavePath(e) ==
  <<"save_dir", "/", "experiment_id", "_best_model_epoch">> \o Pad2(e) \o <<".pt">>

\* f"{save_dir}/{config.experiment_id}_best_model.pt"
FinalSavePath == <<"save_dir", "/", "experiment_id", "_best_model", ".pt">>

\* torch.save(state, path): creates or overwrites the file at path
torch_save(fs, state, path) ==
  {f \in fs : f.path # path} \cup {[path |-> path, state |-> state]}

\* variant: the call is missing
train_skipped(m) == m

\* model.train(): training mode
train(m) == [m EXCEPT !.training = TRUE]

\* model.eval(): inference mode
eval(m) == [m EXCEPT !.training = FALSE]

\* a batch of a pass: which pass, which epoch, which index
Batch(pass, e, idx) == [pass |-> pass, epoch |-> e, batch |-> idx]

\* variant: the buffers are not cleared
zero_grad_skipped(g) == g

\* optimizer.zero_grad(): both optimizers hold every parameter of the model,
\* so the call clears every .grad buffer
zero_grad(g) == {}

\* loss.backward(): the gradients of the batch are added to the buffers
backward(g, b) == g \cup {b}

\* wandb_log(m, do_wandb)
wandb_log(log, m, enabled) == IF enabled THEN Append(log, m) ELSE log

\* variant: one call advances the object twice
SteppedTwice(o) == [o EXCEPT !.steps = @ + 2]

\* opt.step() / scheduler.step(): the object advances by one step
Stepped(o) == [o EXCEPT !.steps = @ + 1]

\* variant: a value below every valid metric value
InitialBestSentinel == 0 - (MetricScale + 1)

\* `max_metric = 0`
InitialBest == 0

\* placeholder of val_last / val_best while no validation pass has run
NoPass == [epoch |-> -1, metric |-> 0, params |-> 0]

Init ==
  /\ \E ep \in 1..MaxEpochs, n \in 1..MaxEveryNVal, c \in BOOLEAN, cl \in BOOLEAN,
        b \in 1..MaxBatchSize, cb \in 1..MaxBatchSize :
       config = [epochs |-> ep, every_n_val |-> n, contrastive |-> c,
                 classify |-> cl, batch_size |-> b,
                 contrastive_batch_size |-> IF c THEN cb ELSE 1]
  /\ do_wandb \in BOOLEAN
  /\ wandb_save \in BOOLEAN
  /\ training_generator \in 0..MaxBatches
  /\ contrastive_generator \in (IF config.contrastive THEN 0..MaxBatches ELSE {0})
  /\ pc = "epoch"
  /\ epo = 0
  /\ i = 0
  /\ model = [obj |-> "live", params |-> 0, training |-> TRUE]
  /\ max_metric = InitialBest
  /\ model_max = deepcopy(model)
  /\ opt = [exists |-> TRUE, steps |-> 0]
  /\ lr_scheduler = [exists |-> TRUE, steps |-> 0]
  /\ opt_contrastive = [exists |-> config.contrastive, steps |-> 0]
  /\ lr_scheduler_contrastive = [exists |-> config.contrastive, steps |-> 0]
  /\ contrastive_loss_fct = [exists |-> config.contrastive, steps |-> 0]
  /\ val_results = 0
  /\ files = {}
  /\ artifacts = <<>>
  /\ telemetry = <<>>
  /\ val_count = 0
  /\ val_last = NoPass
  /\ val_best = NoPass
  /\ test_runs = <<>>
  /\ errors_logged = 0
  /\ raised = <<>>
  /\ test_results = <<>>
  /\ grad = {}
  /\ grad_enabled = TRUE
  /\ returned = <<>>

\* ---- decisions of main() ----

\* variant: an exception in the epoch loop is swallowed and the epoch goes on
LoopFailureSwallowed == "val"

\* the epoch loop has no try block: an exception leaves main()
LoopFailurePc == "aborted"

\* variant: no handler around the terminal test pass
TestFailureRaises == "aborted"

\* `except Exception` around the terminal test pass: log, then fall
\* through to `return model_max`
TestFailurePc == "ret"

\* variant: the loop stops one batch short
ExhaustedEarly(idx, n) == idx >= n - 1

\* `for i, batch in enumerate(generator)`: the loop ends when every batch
\* of the provider has been processed
Exhausted(idx, n) == idx = n

\* variant: the contrastive pass is not guarded
RunsContrastiveAlways(cfg) == TRUE

\* `if config.contrastive:` guarding the contrastive pass
RunsContrastive(cfg) == cfg.contrastive

\* variant: the cadence counts epochs from 1
ValidationDueFromOne(e, cfg) == (e + 1) % cfg.every_n_val = 0

\* `if epo % config.every_n_val == 0:`
ValidationDue(e, cfg) == e % cfg.every_n_val = 0

\* variant: every validation pass counts as an improvement
ImprovesAlways(v, best) == TRUE

\* variant: a tie with the best value counts as an improvement
ImprovesOrEqual(v, best) == v >= best

\* `if val_results[config.watch_metric] > max_metric:`
Improves(v, best) == v > best

\* variant: the terminal test evaluates the live model
TestTargetLive(live, best) == live

\* the model handed to the terminal test(): model_max
TestTarget(live, best) == best

\* variant: the final file holds the live model's state
FinalStateLive(live, best) == state_dict(live)

\* the state written to the final path: model_max.state_dict()
FinalState(live, best) == state_dict(best)

\* "train/step": epo * len(training_generator) * batch_size + i * batch_size
TrainStep(e, idx) ==
  (e * training_generator * config.batch_size) + (idx * config.batch_size)

\* "train/c_step": epo * len(training_generator) * contrastive_batch_size
\*                 + i * contrastive_batch_size
ContrastiveTrainStep(e, idx) ==
  (e * training_generator * config.contrastive_batch_size)
    + (idx * config.contrastive_batch_size)

Rec(keys, e, s) == [keys |-> keys, epoch |-> e, step |-> s]

\* ---- the epoch loop ----

\* for epo in range(config.epochs): model.train()
BeginEpoch ==
  /\ pc = "epoch"
  /\ model' = train(model)
  /\ i' = 0
  /\ pc' = "sup"
  /\ UNCHANGED <<config, do_wandb, wandb_save, training_generator,
                 contrastive_generator, epo, max_metric, model_max, opt,
                 lr_scheduler, opt_contrastive, lr_scheduler_contrastive,
                 contrastive_loss_fct, val_results, files, artifacts,
                 telemetry, val_count, val_last, val_best, test_runs,
                 errors_logged, returned>>
  /\ UNCHANGED raised
  /\ UNCHANGED test_results
  /\ UNCHANGED grad
  /\ UNCHANGED grad_enabled

\* one supervised batch: forward, loss, telemetry, zero_grad, backward, step
SupervisedStep ==
  /\ pc = "sup"
  /\ ~Exhausted(i, training_generator)
  /\ telemetry' = wandb_log(telemetry,
                     Rec({"train/step", "train/loss"}, -1, TrainStep(epo, i)),
                     do_wandb)
  /\ opt' = Stepped(opt)
  /\ model' = [model EXCEPT !.params = @ + 1]
  /\ i' = i + 1
  /\ UNCHANGED <<config, do_wandb, wandb_save, training_generator,
                 contrastive_generator, pc, epo, max_metric, model_max,
                 lr_scheduler, opt_contrastive, lr_scheduler_contrastive,
                 contrastive_loss_fct, val_results, files, artifacts,
                 val_count, val_last, val_best, test_runs, errors_logged,
                 returned>>
  /\ UNCHANGED raised
  /\ UNCHANGED test_results
  /\ grad' = backward(zero_grad(grad), Batch("sup", epo, i))
  /\ UNCHANGED grad_enabled

\* an exception in a supervised batch, before or after its telemetry record
SupervisedFail ==
  /\ pc = "sup"
  /\ ~Exhausted(i, training_generator)
  /\ \E logged \in BOOLEAN :
       /\ telemetry' = wandb_log(telemetry,
                         Rec({"train/step", "train/loss"}, -1, TrainStep(epo, i)),
                         do_wandb /\ logged)
       /\ grad' = IF logged THEN zero_grad(grad) ELSE grad
  /\ pc' = LoopFailurePc
  /\ UNCHANGED <<config, do_wandb, wandb_save, training_generator,
                 contrastive_generator, epo, i, model, max_metric, model_max,
                 opt, lr_scheduler, opt_contrastive,
                 lr_scheduler_contrastive, contrastive_loss_fct, val_results,
                 files, artifacts, val_count, val_last, val_best, test_runs,
                 errors_logged, returned>>
  /\ raised' = Append(raised, "sup")
  /\ UNCHANGED test_results
  /\ UNCHANGED grad_enabled

\* after the last supervised batch: lr_scheduler.step(), epoch telemetry and
\* the log line that reads `loss` (unbound when the provider is empty)
EndSupervisedPass ==
  /\ pc = "sup"
  /\ Exhausted(i, training_generator)
  /\ lr_scheduler' = Stepped(lr_scheduler)
  /\ telemetry' = wandb_log(telemetry, Rec({"epoch", "train/lr"}, epo, -1),
                            do_wandb)
  /\ pc' = IF training_generator = 0 THEN LoopFailurePc
           ELSE IF RunsContrastive(config) THEN "con" ELSE "val"
  /\ i' = 0
  /\ UNCHANGED <<config, do_wandb, wandb_save, training_generator,
                 contrastive_generator, epo, model, max_metric, model_max,
                 opt, opt_contrastive, lr_scheduler_contrastive,
                 contrastive_loss_fct, val_results, files, artifacts,
                 val_count, val_last, val_best, test_runs, errors_logged,
                 returned>>
  /\ raised' = IF training_generator = 0 THEN Append(raised, "sup") ELSE raised
  /\ UNCHANGED test_results
  /\ UNCHANGED grad
  /\ UNCHANGED grad_enabled

\* one triplet batch: projections, loss, telemetry, zero_grad, backward, step
ContrastiveStep ==
  /\ pc = "con"
  /\ ~Exhausted(i, contrastive_generator)
  /\ telemetry' = wandb_log(telemetry,
                     Rec({"train/c_step", "train/c_loss"}, -1,
                         ContrastiveTrainStep(epo, i)),
                     do_wandb)
  /\ opt_contrastive' = Stepped(opt_contrastive)
  /\ model' = [model EXCEPT !.params = @ + 1]
  /\ i' = i + 1
  /\ UNCHANGED <<config, do_wandb, wandb_save, training_generator,
                 contrastive_generator, pc, epo, max_metric, model_max, opt,
                 lr_scheduler, lr_scheduler_contrastive,
                 contrastive_loss_fct, val_results, files, artifacts,
                 val_count, val_last, val_best, test_runs, errors_logged,
                 returned>>
  /\ UNCHANGED raised
  /\ UNCHANGED test_results
  /\ grad' = backward(zero_grad(grad), Batch("con", epo, i))
  /\ UNCHANGED grad_enabled

\* an exception in a triplet batch, before or after its telemetry record
ContrastiveFail ==
  /\ pc = "con"
  /\ ~Exhausted(i, contrastive_generator)
  /\ \E logged \in BOOLEAN :
       /\ telemetry' = wandb_log(telemetry,
                         Rec({"train/c_step", "train/c_loss"}, -1,
                             ContrastiveTrainStep(epo, i)),
                         do_wandb /\ logged)
       /\ grad' = IF logged THEN zero_grad(grad) ELSE grad
  /\ pc' = LoopFailurePc
  /\ UNCHANGED <<config, do_wandb, wandb_save, training_generator,
                 contrastive_generator, epo, i, model, max_metric, model_max,
                 opt, lr_scheduler, opt_contrastive,
                 lr_scheduler_contrastive, contrastive_loss_fct, val_results,
                 files, artifacts, val_count, val_last, val_best, test_runs,
                 errors_logged, returned>>
  /\ raised' = Append(raised, "con")
  /\ UNCHANGED test_results
  /\ UNCHANGED grad_enabled

\* after the last triplet batch: margin step, contrastive lr step, telemetry
\* and the log line that reads `contrastive_loss` (unbound when empty)
EndContrastivePass ==
  /\ pc = "con"
  /\ Exhausted(i, contrastive_generator)
  /\ contrastive_loss_fct' = Stepped(contrastive_loss_fct)
  /\ lr_scheduler_contrastive' = Stepped(lr_scheduler_contrastive)
  /\ telemetry' = wandb_log(telemetry,
                     Rec({"epoch", "train/triplet_margin", "train/contrastive_lr"},
                         epo, -1),
                     do_wandb)
  /\ pc' = IF contrastive_generator = 0 THEN LoopFailurePc ELSE "val"
  /\ UNCHANGED <<config, do_wandb, wandb_save, training_generator,
                 contrastive_generator, epo, i, model, max_metric, model_max,
                 opt, lr_scheduler, opt_contrastive, val_results, files,
                 artifacts, val_count, val_last, val_best, test_runs,
                 errors_logged, returned>>
  /\ raised' = IF contrastive_generator = 0 THEN Append(raised, "con") ELSE raised
  /\ UNCHANGED test_results
  /\ UNCHANGED grad
  /\ UNCHANGED grad_enabled

\* `for epo in range(config.epochs)`: the next iteration, or the loop ends
\* and epo keeps the value of the last iteration
NextEpochPc(e, cfg) == IF e + 1 < cfg.epochs THEN "epoch" ELSE "test"
NextEpochEpo(e, cfg) == IF e + 1 < cfg.epochs THEN e + 1 ELSE e

\* ---- validation and the Checkpoint Selector ----

\* an epoch whose index is not a multiple of every_n_val: nothing is evaluated
SkipValidation ==
  /\ pc = "val"
  /\ ~ValidationDue(epo, config)
  /\ pc' = NextEpochPc(epo, config)
  /\ epo' = NextEpochEpo(epo, config)
  /\ UNCHANGED <<config, do_wandb, wandb_save, training_generator,
                 contrastive_generator, i, model, max_metric, model_max, opt,
                 lr_scheduler, opt_contrastive, lr_scheduler_contrastive,
                 contrastive_loss_fct, val_results, files, artifacts,
                 telemetry, val_count, val_last, val_best, test_runs,
                 errors_logged, returned>>
  /\ UNCHANGED raised
  /\ UNCHANGED test_results
  /\ UNCHANGED grad
  /\ UNCHANGED grad_enabled

\* test(model, validation_generator, ...): model.eval(), metrics computed,
\* results sent to the sink
ValidationPass ==
  /\ pc = "val"
  /\ ValidationDue(epo, config)
  /\ \E v \in MetricValues(config.classify) :
       /\ val_results' = v
       /\ val_last' = [epoch |-> epo, metric |-> v, params |-> model.params]
       /\ val_best' = IF val_count = 0 \/ v > val_best.metric
                      THEN val_last' ELSE val_best
  /\ val_count' = val_count + 1
  /\ model' = eval(model)
  /\ telemetry' = wandb_log(telemetry,
                     Rec({"val/metrics", "epoch", "Charts/epoch_time"}, epo, -1),
                     do_wandb)
  /\ pc' = "ckpt"
  /\ UNCHANGED <<config, do_wandb, wandb_save, training_generator,
                 contrastive_generator, epo, i, max_metric, model_max, opt,
                 lr_scheduler, opt_contrastive, lr_scheduler_contrastive,
                 contrastive_loss_fct, files, artifacts, test_runs,
                 errors_logged, returned>>
  /\ UNCHANGED raised
  /\ UNCHANGED test_results
  /\ UNCHANGED grad
  /\ grad_enabled' = FALSE

\* an exception while evaluating or sending the validation results
ValidationFail ==
  /\ pc = "val"
  /\ ValidationDue(epo, config)
  /\ model' = eval(model)
  /\ pc' = LoopFailurePc
  /\ UNCHANGED <<config, do_wandb, wandb_save, training_generator,
                 contrastive_generator, epo, i, max_metric, model_max, opt,
                 lr_scheduler, opt_contrastive, lr_scheduler_contrastive,
                 contrastive_loss_fct, val_results, files, artifacts,
                 telemetry, val_count, val_last, val_best, test_runs,
                 errors_logged, returned>>
  /\ raised' = Append(raised, "val")
  /\ UNCHANGED test_results
  /\ UNCHANGED grad
  /\ grad_enabled' = TRUE

\* improvement: deep copy, new best value, per-epoch snapshot, artifact
CheckpointImprove ==
  /\ pc = "ckpt"
  /\ Improves(val_results, max_metric)
  /\ model_max' = deepcopy(model)
  /\ max_metric' = val_results
  /\ files' = torch_save(files, state_dict(model_max'), EpochSavePath(epo))
  /\ artifacts' = IF do_wandb /\ wandb_save
                  THEN Append(artifacts, EpochSavePath(epo)) ELSE artifacts
  /\ pc' = NextEpochPc(epo, config)
  /\ epo' = NextEpochEpo(epo, config)
  /\ UNCHANGED <<config, do_wandb, wandb_save, training_generator,
                 contrastive_generator, i, model, opt, lr_scheduler,
                 opt_contrastive, lr_scheduler_contrastive,
                 contrastive_loss_fct, val_results, telemetry, val_count,
                 val_last, val_best, test_runs, errors_logged, returned>>
  /\ UNCHANGED raised
  /\ UNCHANGED test_results
  /\ UNCHANGED grad
  /\ grad_enabled' = TRUE

\* improvement, but torch.save raises (saved = FALSE) or the artifact upload
\* raises after the file was written (saved = TRUE)
CheckpointFail ==
  /\ pc = "ckpt"
  /\ Improves(val_results, max_metric)
  /\ model_max' = deepcopy(model)
  /\ max_metric' = val_results
  /\ \E saved \in {FALSE, do_wandb /\ wandb_save} :
       files' = IF saved
                THEN torch_save(files, state_dict(model_max'), EpochSavePath(epo))
                ELSE files
  /\ pc' = LoopFailurePc
  /\ UNCHANGED <<config, do_wandb, wandb_save, training_generator,
                 contrastive_generator, epo, i, model, opt, lr_scheduler,
                 opt_contrastive, lr_scheduler_contrastive,
                 contrastive_loss_fct, val_results, artifacts, telemetry,
                 val_count, val_last, val_best, test_runs, errors_logged,
                 returned>>
  /\ raised' = Append(raised, "ckpt")
  /\ UNCHANGED test_results
  /\ UNCHANGED grad
  /\ grad_enabled' = TRUE

\* no improvement: the body of the `if` is skipped
CheckpointKeep ==
  /\ pc = "ckpt"
  /\ ~Improves(val_results, max_metric)
  /\ pc' = NextEpochPc(epo, config)
  /\ epo' = NextEpochEpo(epo, config)
  /\ UNCHANGED <<config, do_wandb, wandb_save, training_generator,
                 contrastive_generator, i, model, max_metric, model_max, opt,
                 lr_scheduler, opt_contrastive, lr_scheduler_contrastive,
                 contrastive_loss_fct, val_results, files, artifacts,
                 telemetry, val_count, val_last, val_best, test_runs,
                 errors_logged, returned>>
  /\ UNCHANGED raised
  /\ UNCHANGED test_results
  /\ UNCHANGED grad
  /\ grad_enabled' = TRUE

\* ---- the terminal test pass (inside try / except Exception) ----

\* model_max.eval(); test(model_max, testing_generator, ...)
TestEval ==
  /\ pc = "test"
  /\ model_max' = eval(model_max)
  /\ test_runs' = Append(test_runs, state_dict(TestTarget(model, model_max)))
  /\ pc' = "test_log"
  /\ UNCHANGED <<config, do_wandb, wandb_save, training_generator,
                 contrastive_generator, epo, i, model, max_metric, opt,
                 lr_scheduler, opt_contrastive, lr_scheduler_contrastive,
                 contrastive_loss_fct, val_results, files, artifacts,
                 telemetry, val_count, val_last, val_best, errors_logged,
                 returned>>
  /\ UNCHANGED raised
  /\ test_results' = <<[state |-> test_runs'[1], epoch |-> epo + 1]>>
  /\ UNCHANGED grad
  /\ grad_enabled' = FALSE

\* an exception while the test pass evaluates: caught and logged
TestEvalFail ==
  /\ pc = "test"
  /\ model_max' = eval(model_max)
  /\ test_runs' = Append(test_runs, state_dict(TestTarget(model, model_max)))
  /\ errors_logged' = errors_logged + 1
  /\ pc' = TestFailurePc
  /\ UNCHANGED <<config, do_wandb, wandb_save, training_generator,
                 contrastive_generator, epo, i, model, max_metric, opt,
                 lr_scheduler, opt_contrastive, lr_scheduler_contrastive,
                 contrastive_loss_fct, val_results, files, artifacts,
                 telemetry, val_count, val_last, val_best, returned>>
  /\ raised' = Append(raised, "test")
  /\ UNCHANGED test_results
  /\ UNCHANGED grad
  /\ grad_enabled' = TRUE

\* wandb_log(test_results, do_wandb)
TestLog ==
  /\ pc = "test_log"
  /\ telemetry' = wandb_log(telemetry,
                     Rec({"test/metrics", "epoch", "test/eval_time",
                          "Charts/wall_clock_time"}, epo + 1, -1),
                     do_wandb)
  /\ pc' = "test_save"
  /\ UNCHANGED <<config, do_wandb, wandb_save, training_generator,
                 contrastive_generator, epo, i, model, max_metric, model_max,
                 opt, lr_scheduler, opt_contrastive,
                 lr_scheduler_contrastive, contrastive_loss_fct, val_results,
                 files, artifacts, val_count, val_last, val_best, test_runs,
                 errors_logged, returned>>
  /\ UNCHANGED raised
  /\ UNCHANGED test_results
  /\ UNCHANGED grad
  /\ UNCHANGED grad_enabled

\* the sink raises on the test results: caught and logged
TestLogFail ==
  /\ pc = "test_log"
  /\ do_wandb
  /\ errors_logged' = errors_logged + 1
  /\ pc' = TestFailurePc
  /\ UNCHANGED <<config, do_wandb, wandb_save, training_generator,
                 contrastive_generator, epo, i, model, max_metric, model_max,
                 opt, lr_scheduler, opt_contrastive,
                 lr_scheduler_contrastive, contrastive_loss_fct, val_results,
                 files, artifacts, telemetry, val_count, val_last, val_best,
                 test_runs, returned>>
  /\ raised' = Append(raised, "test_log")
  /\ UNCHANGED test_results
  /\ UNCHANGED grad
  /\ grad_enabled' = TRUE

\* torch.save(model_max.state_dict(), <final path>)
TestSave ==
  /\ pc = "test_save"
  /\ files' = torch_save(files, FinalState(model, model_max), FinalSavePath)
  /\ pc' = "test_art"
  /\ UNCHANGED <<config, do_wandb, wandb_save, training_generator,
                 contrastive_generator, epo, i, model, max_metric, model_max,
                 opt, lr_scheduler, opt_contrastive,
                 lr_scheduler_contrastive, contrastive_loss_fct, val_results,
                 artifacts, telemetry, val_count, val_last, val_best,
                 test_runs, errors_logged, returned>>
  /\ UNCHANGED raised
  /\ UNCHANGED test_results
  /\ UNCHANGED grad
  /\ UNCHANGED grad_enabled

\* torch.save raises: caught and logged, the final file is not written
TestSaveFail ==
  /\ pc = "test_save"
  /\ errors_logged' = errors_logged + 1
  /\ pc' = TestFailurePc
  /\ UNCHANGED <<config, do_wandb, wandb_save, training_generator,
                 contrastive_generator, epo, i, model, max_metric, model_max,
                 opt, lr_scheduler, opt_contrastive,
                 lr_scheduler_contrastive, contrastive_loss_fct, val_results,
                 files, artifacts, telemetry, val_count, val_last, val_best,
                 test_runs, returned>>
  /\ raised' = Append(raised, "test_save")
  /\ UNCHANGED test_results
  /\ UNCHANGED grad
  /\ grad_enabled' = TRUE

\* `if do_wandb and wandb_save:` the final file is sent as an artifact
TestArtifact ==
  /\ pc = "test_art"
  /\ artifacts' = IF do_wandb /\ wandb_save
                  THEN Append(artifacts, FinalSavePath) ELSE artifacts
  /\ pc' = "ret"
  /\ UNCHANGED <<config, do_wandb, wandb_save, training_generator,
                 contrastive_generator, epo, i, model, max_metric, model_max,
                 opt, lr_scheduler, opt_contrastive,
                 lr_scheduler_contrastive, contrastive_loss_fct, val_results,
                 files, telemetry, val_count, val_last, val_best, test_runs,
                 errors_logged, returned>>
  /\ UNCHANGED raised
  /\ UNCHANGED test_results
  /\ UNCHANGED grad
  /\ grad_enabled' = TRUE

\* the artifact upload raises: caught and logged
TestArtifactFail ==
  /\ pc = "test_art"
  /\ do_wandb /\ wandb_save
  /\ errors_logged' = errors_logged + 1
  /\ pc' = TestFailurePc
  /\ UNCHANGED <<config, do_wandb, wandb_save, training_generator,
                 contrastive_generator, epo, i, model, max_metric, model_max,
                 opt, lr_scheduler, opt_contrastive,
                 lr_scheduler_contrastive, contrastive_loss_fct, val_results,
                 files, artifacts, telemetry, val_count, val_last, val_best,
                 test_runs, returned>>
  /\ raised' = Append(raised, "test_art")
  /\ UNCHANGED test_results
  /\ UNCHANGED grad
  /\ grad_enabled' = TRUE

\* variant: the test results are returned with the model
ReturnWithResults(best, results) == <<best>> \o results

\* the value of `return model_max`: the best model and nothing else
ReturnValue(best, results) == <<best>>

\* return model_max
Return ==
  /\ pc = "ret"
  /\ returned' = ReturnValue(model_max, test_results)
  /\ pc' = "done"
  /\ UNCHANGED <<config, do_wandb, wandb_save, training_generator,
                 contrastive_generator, epo, i, model, max_metric, model_max,
                 opt, lr_scheduler, opt_contrastive,
                 lr_scheduler_contrastive, contrastive_loss_fct, val_results,
                 files, artifacts, telemetry, val_count, val_last, val_best,
                 test_runs, errors_logged>>
  /\ UNCHANGED raised
  /\ UNCHANGED test_results
  /\ UNCHANGED grad
  /\ UNCHANGED grad_enabled

Next ==
  \/ BeginEpoch
  \/ SupervisedStep
  \/ SupervisedFail
  \/ EndSupervisedPass
  \/ ContrastiveStep
  \/ ContrastiveFail
  \/ EndContrastivePass
  \/ SkipValidation
  \/ ValidationPass
  \/ ValidationFail
  \/ CheckpointImprove
  \/ CheckpointFail
  \/ CheckpointKeep
  \/ TestEval
  \/ TestEvalFail
  \/ TestLog
  \/ TestLogFail
  \/ TestSave
  \/ TestSaveFail
  \/ TestArtifact
  \/ TestArtifactFail
  \/ Return

Spec == Init /\ [][Next]_vars

\* the interpreter runs main() to its end: no step is postponed forever
FairSpec == Spec /\ WF_vars(Next)

TypeOK ==
  /\ pc \in {"epoch", "sup", "con", "val", "ckpt", "test", "test_log",
              "test_save", "test_art", "ret", "done", "aborted"}
  /\ epo \in 0..(config.epochs - 1)
  /\ model.params \in Nat
  /\ model_max.params <= model.params
  /\ Len(returned) <= 1

\* ---- properties ----

\* the positions of main() inside the epoch loop / inside the try block
LoopPcs == {"epoch", "sup", "con", "val", "ckpt"}
TestPcs == {"test", "test_log", "test_save", "test_art"}

\* C1: once a validation pass has completed (and its checkpoint decision is
\* taken), model_max is the snapshot of the live model taken at the validation
\* pass whose watched-metric value is the maximum of all passes run so far.
C1_BestIsMaxPass ==
  (val_count >= 1 /\ pc # "ckpt") => model_max.params = val_best.params

\* C2: whatever valid value the watched metric takes on the first validation
\* pass, that pass is an improvement: it replaces the initial snapshot,
\* records its value and writes the per-epoch checkpoint.
C2_FirstPassImproves ==
  (val_count = 1 /\ pc \notin {"ckpt", "aborted"}) =>
    /\ model_max.params = val_last.params
    /\ max_metric = val_last.metric
    /\ \E f \in files : f.path = EpochSavePath(val_last.epoch)

\* C3: a checkpoint step whose watched-metric value does not exceed the
\* best value leaves max_metric, model_max, the snapshot files and the
\* artifacts sent to the sink unchanged.
C3_NoChangeWithoutImprovement ==
  [][(pc = "ckpt" /\ val_results <= max_metric)
       => UNCHANGED <<max_metric, model_max, files, artifacts>>]_vars

\* a pass that ties with the best value has been through the checkpoint step
C3_Witness ==
  /\ val_count >= 2
  /\ pc \in {"epoch", "test"}
  /\ val_last.metric = max_metric
  /\ model_max.params # val_last.params
  /\ files # {}

\* the supervised / contrastive optimizer steps due in e whole epochs
SupStepsIn(e) == e * training_generator
ConStepsIn(e) == IF config.contrastive THEN e * contrastive_generator ELSE 0

\* C4: every epoch is one full supervised pass (one supervised optimizer
\* step per batch, in provider order) followed, iff contrastive training is
\* enabled, by one full contrastive pass (one contrastive optimizer step per
\* triplet batch); contrastive steps of epoch e come after its last supervised
\* step and before the first supervised step of epoch e+1.
C4_EpochPassOrder ==
  /\ [](pc = "val" => /\ opt.steps = SupStepsIn(epo + 1)
                      /\ opt_contrastive.steps = ConStepsIn(epo + 1))
  /\ [][opt.steps' # opt.steps =>
         (/\ pc = "sup"
          /\ opt.steps' = opt.steps + 1
          /\ opt.steps = SupStepsIn(epo) + i
          /\ opt_contrastive.steps = ConStepsIn(epo))]_vars
  /\ [][opt_contrastive.steps' # opt_contrastive.steps =>
         (/\ config.contrastive
          /\ pc = "con"
          /\ opt_contrastive.steps' = opt_contrastive.steps + 1
          /\ opt_contrastive.steps = ConStepsIn(epo) + i
          /\ opt.steps = SupStepsIn(epo + 1))]_vars

\* the second epoch of a contrastive run with two batches in each provider
\* has finished both passes
C4_Witness ==
  /\ config.contrastive
  /\ pc = "val"
  /\ epo = 1
  /\ training_generator = 2
  /\ contrastive_generator = 2
  /\ opt.steps = 4
  /\ opt_contrastive.steps = 4

\* the epochs before e whose index is a multiple of every_n_val
DueBefore(e) == Cardinality({x \in 0..(e - 1) : x % config.every_n_val = 0})

\* C5: a validation pass runs at the end of epoch e iff e mod every_n_val = 0
\* (so always for epoch 0); any other epoch computes no validation metric and
\* leaves max_metric, model_max and the snapshot files unchanged.
C5_ValidationCadence ==
  /\ [](pc = "epoch" => val_count = DueBefore(epo))
  /\ [][val_count' # val_count =>
         (/\ pc = "val"
          /\ epo % config.every_n_val = 0
          /\ val_count' = val_count + 1
          /\ val_last'.epoch = epo)]_vars
  /\ [][(pc = "val" /\ epo % config.every_n_val = 0) =>
         (val_count' = val_count + 1 \/ pc' = "aborted")]_vars
  /\ [][(pc \in LoopPcs /\ epo % config.every_n_val # 0) =>
         (UNCHANGED <<max_metric, model_max, files, val_count, val_last,
                      val_results>>)]_vars

\* with every_n_val = 2, epoch 0 was validated and epoch 1 was not
C5_Witness ==
  /\ config.every_n_val = 2
  /\ config.epochs = 2
  /\ epo = 1
  /\ pc = "test"
  /\ val_count = 1
  /\ val_last.epoch = 0

\* C6: unless an error aborts the epoch loop, the terminal test pass is
\* eventually started, exactly once, after every training and validation
\* step of the final epoch, and it evaluates model_max, not the live model.
C6_TerminalTest ==
  /\ [][test_runs' # test_runs =>
         (/\ pc = "test"
          /\ test_runs = <<>>
          /\ test_runs' = <<state_dict(model_max)>>
          /\ epo = config.epochs - 1
          /\ opt.steps = SupStepsIn(config.epochs)
          /\ opt_contrastive.steps = ConStepsIn(config.epochs)
          /\ val_count = DueBefore(config.epochs))]_vars
  /\ [][test_runs # <<>> =>
         (UNCHANGED <<opt, opt_contrastive, lr_scheduler, model, val_count,
                      max_metric>>)]_vars
  /\ <>(pc = "aborted" \/ Len(test_runs) = 1)

\* the test pass ran on a best snapshot older than the live model
C6_Witness ==
  /\ pc = "done"
  /\ test_runs = <<state_dict(model_max)>>
  /\ max_metric > 0
  /\ model_max.params = val_best.params
  /\ model.params > model_max.params

\* C7: an error raised in the terminal test pass (evaluation, telemetry,
\* final snapshot, artifact) is caught and logged; main() does not raise and
\* returns the best snapshot held when the epoch loop ended.
C7_TestErrorsCaught ==
  /\ [][(pc \in TestPcs) =>
         (/\ pc' \in TestPcs \cup {"ret"}
          /\ state_dict(model_max') = state_dict(model_max)
          /\ max_metric' = max_metric)]_vars
  /\ [][(pc \in TestPcs /\ raised' # raised) =>
         (/\ pc' = "ret"
          /\ errors_logged' = errors_logged + 1)]_vars
  /\ [][pc = "ret" => (pc' = "done" /\ returned' = <<model_max>>)]_vars

\* main() returned the best snapshot after the final torch.save raised
C7_Witness ==
  /\ pc = "done"
  /\ raised = <<"test_save">>
  /\ errors_logged = 1
  /\ returned = <<model_max>>
  /\ max_metric > 0

\* C8: an error raised in a supervised or contrastive training pass is not
\* caught: main() is left at once, with no further optimizer or scheduler
\* step, validation pass, checkpoint update or test pass and no return value.
C8_LoopErrorsPropagate ==
  /\ [][(pc \in {"sup", "con"} /\ raised' # raised) => pc' = "aborted"]_vars
  /\ [][pc # "aborted"]_vars
  /\ [](pc = "aborted" =>
         (returned = <<>> /\ test_runs = <<>> /\ errors_logged = 0))

\* a contrastive batch of the second epoch raised
C8_Witness ==
  /\ pc = "aborted"
  /\ raised = <<"con">>
  /\ epo = 1
  /\ opt_contrastive.steps > contrastive_generator

FinalWritten ==
  \E f \in files : f.path = FinalSavePath /\ f.state = state_dict(returned[1])

ContrastiveKeys ==
  {"train/c_step", "train/c_loss", "train/triplet_margin", "train/contrastive_lr"}

\* C10: with contrastive = false there is no contrastive optimizer, learning
\* rate schedule or margin scheduler, none is ever stepped, no contrastive
\* telemetry record is emitted and only supervised steps train the model.
C10_NoContrastiveWhenDisabled ==
  ~config.contrastive =>
    /\ ~opt_contrastive.exists /\ opt_contrastive.steps = 0
    /\ ~lr_scheduler_contrastive.exists /\ lr_scheduler_contrastive.steps = 0
    /\ ~contrastive_loss_fct.exists /\ contrastive_loss_fct.steps = 0
    /\ pc # "con"
    /\ model.params = opt.steps
    /\ \A k \in DOMAIN telemetry : telemetry[k].keys \cap ContrastiveKeys = {}

\* a supervised-only run with the sink enabled has finished two epochs
C10_Witness ==
  /\ ~config.contrastive
  /\ do_wandb
  /\ pc = "done"
  /\ epo = 1
  /\ opt.steps = 4
  /\ Len(telemetry) >= 6

\* the places of the terminal test pass where only a call to the sink
\* (wandb.log, wandb.log_artifact) can raise
SinkOrigins == {"test_log", "test_art"}

\* C11: the sink is pure output: a run in which nothing but calls to the
\* sink misbehave has the outcome of the same run without a sink; without a
\* sink that run raises nothing, so main() returns and the state of the
\* returned model is in the final snapshot file.
C11_SinkIsPureOutput ==
  (\A k \in DOMAIN raised : raised[k] \in SinkOrigins) =>
    /\ pc # "aborted"
    /\ pc = "done" => FinalWritten

\* C12 as claimed: when the terminal test pass succeeds, the value main()
\* returns holds the best-model snapshot and the test metrics computed on it.
C12_ReturnsModelAndMetrics ==
  (pc = "done" /\ raised = <<>>) =>
    /\ Len(returned) = 2
    /\ returned[1] = model_max
    /\ returned[2] = test_results[1]

\* C12 amended: main() returns the best-model snapshot alone; when the
\* terminal test pass succeeds its metrics were computed on that snapshot and
\* sent to the sink (if enabled), but they are not part of the return value.
C12_ReturnsModelOnly ==
  pc = "done" =>
    /\ returned = <<model_max>>
    /\ raised = <<>> =>
         /\ test_results =
              <<[state |-> state_dict(model_max), epoch |-> config.epochs]>>
         /\ do_wandb =>
              \E k \in DOMAIN telemetry :
                /\ "test/metrics" \in telemetry[k].keys
                /\ telemetry[k].epoch = config.epochs

\* a run with the sink enabled whose test pass succeeded has returned
C12_Witness ==
  /\ pc = "done"
  /\ raised = <<>>
  /\ do_wandb
  /\ test_results # <<>>
  /\ Len(returned) = 1
  /\ max_metric > 0

\* C13: max_metric never decreases from its initial value on, and the
\* state held by model_max is replaced only by a step that strictly
\* increases max_metric.
C13_BestValueMonotone ==
  [][/\ max_metric' >= max_metric
     /\ (state_dict(model_max') # state_dict(model_max))
          => max_metric' > max_metric
     /\ (max_metric' # max_metric)
          => (pc = "ckpt" /\ max_metric' = val_results)]_vars

\* two validation passes in a row improved, then a lower one was ignored
\* or the run went on to the test
C13_Witness ==
  /\ val_count = 2
  /\ pc \in {"epoch", "test"}
  /\ max_metric = val_last.metric
  /\ max_metric > 1
  /\ Cardinality(files) = 2

\* the state the live model had when the snapshot held by model_max was
\* taken: before epoch 0, or at the first validation pass with the best value
SnapshotMoment == IF max_metric > 0 THEN val_best.params ELSE 0

\* C14: no supervised or contrastive optimizer step on the live model
\* changes the state seen through model_max; the state the terminal test
\* evaluates and main() returns is the live model's state at the moment the
\* snapshot was taken.
C14_SnapshotIndependent ==
  /\ [][(opt.steps' # opt.steps \/ opt_contrastive.steps' # opt_contrastive.steps)
         => (state_dict(model_max))' = state_dict(model_max)]_vars
  /\ [](pc = "done" =>
         /\ state_dict(returned[1]) = SnapshotMoment
         /\ test_runs # <<>> => test_runs[1] = SnapshotMoment)

\* supervised and contrastive steps followed the best snapshot, which was
\* then tested and returned
C14_Witness ==
  /\ pc = "done"
  /\ config.contrastive
  /\ max_metric > 0
  /\ val_best.epoch = 0
  /\ opt.steps > training_generator
  /\ opt_contrastive.steps > contrastive_generator
  /\ test_runs = <<val_best.params>>
  /\ state_dict(returned[1]) < model.params

\* C15: the supervised learning-rate schedule is stepped once per epoch,
\* after the last supervised batch and before the contrastive pass; the
\* margin scheduler and the contrastive learning-rate schedule are stepped
\* once per epoch, after the last contrastive optimizer step and before the
\* validation pass; after k completed epochs each active scheduler has been
\* stepped k times.
C15_SchedulersOncePerEpoch ==
  /\ [][lr_scheduler.steps' # lr_scheduler.steps =>
         (/\ pc = "sup"
          /\ lr_scheduler.steps = epo
          /\ lr_scheduler.steps' = epo + 1
          /\ opt.steps = SupStepsIn(epo + 1)
          /\ opt' = opt
          /\ opt_contrastive.steps = ConStepsIn(epo))]_vars
  /\ [][(contrastive_loss_fct.steps' # contrastive_loss_fct.steps
          \/ lr_scheduler_contrastive.steps' # lr_scheduler_contrastive.steps) =>
         (/\ config.contrastive
          /\ pc = "con"
          /\ contrastive_loss_fct.steps = epo
          /\ contrastive_loss_fct.steps' = epo + 1
          /\ lr_scheduler_contrastive.steps = epo
          /\ lr_scheduler_contrastive.steps' = epo + 1
          /\ opt_contrastive.steps = ConStepsIn(epo + 1)
          /\ opt_contrastive' = opt_contrastive
          /\ val_count = DueBefore(epo))]_vars
  /\ []((pc = "epoch" \/ pc \in TestPcs) =>
         LET k == IF pc = "epoch" THEN epo ELSE config.epochs
         IN  /\ lr_scheduler.steps = k
             /\ config.contrastive =>
                  /\ contrastive_loss_fct.steps = k
                  /\ lr_scheduler_contrastive.steps = k)

\* two epochs of a contrastive run with two batches per provider completed
C15_Witness ==
  /\ pc = "test"
  /\ config.contrastive
  /\ config.epochs = 2
  /\ training_generator = 2
  /\ contrastive_generator = 2
  /\ lr_scheduler.steps = 2
  /\ contrastive_loss_fct.steps = 2
  /\ lr_scheduler_contrastive.steps = 2

\* C16: at every optimizer step of either pass the gradient buffers hold
\* the gradients of exactly the current batch: nothing of an earlier batch
\* of the same pass, nothing of a batch of the other pass.
C16_NoStaleGradients ==
  /\ [][opt.steps' # opt.steps => grad' = {Batch("sup", epo, i)}]_vars
  /\ [][opt_contrastive.steps' # opt_contrastive.steps =>
         grad' = {Batch("con", epo, i)}]_vars
  /\ [](Cardinality(grad) <= 1)

\* the first supervised batch of the second epoch has been stepped after a
\* contrastive pass of two batches
C16_Witness ==
  /\ pc = "sup"
  /\ epo = 1
  /\ i = 1
  /\ contrastive_generator = 2
  /\ opt_contrastive.steps = 2
  /\ grad = {Batch("sup", 1, 0)}

\* C17: a validation pass and the terminal test pass evaluate a model in
\* inference mode with gradient tracking disabled; every supervised and
\* contrastive optimizer step, also after a validation pass, is taken with
\* the live model in training mode (and gradient tracking enabled).
C17_EvalAndTrainModes ==
  /\ [][val_count' # val_count =>
         (~model'.training /\ ~grad_enabled')]_vars
  /\ [][test_results' # test_results =>
         (~model_max'.training /\ ~grad_enabled')]_vars
  /\ [][(opt.steps' # opt.steps \/ opt_contrastive.steps' # opt_contrastive.steps)
         => (model.training /\ grad_enabled)]_vars
  /\ [](pc \in {"ckpt", "test_log", "test_save", "test_art"} => ~grad_enabled)

\* a supervised step of the epoch that follows a validation pass
C17_Witness ==
  /\ pc = "sup"
  /\ epo = 1
  /\ i = 1
  /\ val_count = 1
  /\ model.training
  /\ grad_enabled
  /\ ~model_max.training

EpochFiles == {f \in files : f.path # FinalSavePath}

\* C18: while no validation pass has produced a watched-metric value above
\* 0, no per-epoch checkpoint exists and model_max, hence the model tested
\* and returned, holds the state the model had before any optimizer step.
C18_NoPositiveMetricKeepsInitial ==
  (val_best.metric <= 0) =>
    /\ EpochFiles = {}
    /\ state_dict(model_max) = 0
    /\ test_runs # <<>> => test_runs[1] = 0
    /\ pc = "done" => state_dict(returned[1]) = 0

\* two validated epochs of training, no value above 0: the untrained copy
\* was tested, saved and returned
C18_Witness ==
  /\ pc = "done"
  /\ val_count = 2
  /\ val_best.metric <= 0
  /\ model.params >= 2
  /\ test_runs = <<0>>
  /\ files = {[path |-> FinalSavePath, state |-> 0]}
  /\ state_dict(returned[1]) = 0

\* the epochs that have a per-epoch checkpoint file
CheckpointEpochs == {e \in 0..epo : \E f \in files : f.path = EpochSavePath(e)}

LastCheckpointEpoch ==
  CHOOSE e \in CheckpointEpochs : \A x \in CheckpointEpochs : x <= e

\* C19: when the final snapshot file and at least one per-epoch checkpoint
\* exist, the final file holds the state of the per-epoch checkpoint with the
\* highest epoch number, which is also the state of the model returned.
C19_FinalEqualsLastCheckpoint ==
  \A f \in files :
    (f.path = FinalSavePath /\ CheckpointEpochs # {}) =>
      /\ \A g \in files :
           g.path = EpochSavePath(LastCheckpointEpoch) => g.state = f.state
      /\ pc = "done" => state_dict(returned[1]) = f.state

\* both epochs wrote a checkpoint; the final file repeats the second one
C19_Witness ==
  /\ pc = "done"
  /\ CheckpointEpochs = {0, 1}
  /\ \E f, g, h \in files :
       /\ f.path = FinalSavePath
       /\ g.path = EpochSavePath(1)
       /\ h.path = EpochSavePath(0)
       /\ f.state = g.state
       /\ f.state # h.state

\* the records of the telemetry that carry the counter `key` grow strictly
Increasing(key) ==
  \A j, k \in DOMAIN telemetry :
    (j < k /\ key \in telemetry[j].keys /\ key \in telemetry[k].keys)
      => telemetry[j].step < telemetry[k].step

\* C20: of two supervised batches emitted in order the later carries the
\* larger train/step, and of two contrastive batches emitted in order the
\* later carries the larger train/c_step.
C20_StepCountersIncrease == Increasing("train/step") /\ Increasing("train/c_step")

====
